---- MODULE Spec2Model ----
(***************************************************************************)
(* A model of the neuron layer of cognitio (src/neuron.rs): the layer's    *)
(* forward pass `propagate`, its backward pass `backpropagation`, and the  *)
(* Activation and LossFunction policies.                                   *)
(*                                                                         *)
(* Numbers.  The source computes in f64.  The model computes in decimal    *)
(* fixed point: the integer n stands for the number n / Scale.  Products   *)
(* and quotients are rounded to the nearest unit, exp and ln are computed  *)
(* by their series to the same precision; a divisor is below 21 and a      *)
(* number below 2147 in magnitude.  Two non-finite f64 values can          *)
(* arise in the modelled input ranges, both from ln: NaN and -infinity.    *)
(* They are the two integers NaN and NegInf below the finite range, so     *)
(* that every ordered comparison with a finite number that f64 answers     *)
(* `false` for NaN (v > 0, v >= 0) is false in the model too.  The zero of *)
(* the model is f64's +0.0: the inputs contain no -0.0, and no operation   *)
(* of the layer turns them into a -0.0 where its sign could be observed    *)
(* (the bias is never -0.0, so the net output never is).                   *)
(*                                                                         *)
(* A panic (a dimension assertion of the linear algebra library, or        *)
(* unimplemented!()) is the result value Abort.                            *)
(***************************************************************************)
EXTENDS Integers, Sequences, FiniteSets, TLC

\* f64 as fixed point: n stands for n / Scale.
Scale == 1000000

\* Scale = Half * Half: the two halves of a factor in the split product.
Half == 1000

NaN == -2000000001

NegInf == -2000000000

IsFinite(v) == v > NegInf

Abs(v) == IF v < 0 THEN -v ELSE v

Sign(v) == IF v < 0 THEN -1 ELSE 1

\* |a| * |b| / Scale, rounded to nearest, without leaving 32 bits.
MulAbs(a, b) ==
  ((a \div Half) * (b \div Half))
    + (((a \div Half) * (b % Half) + (a % Half) * (b \div Half)) \div Half)
    + ((((((a \div Half) * (b % Half) + (a % Half) * (b \div Half)) % Half) * Half)
          + (a % Half) * (b % Half) + (Scale \div 2)) \div Scale)

\* f64 multiplication.
Mul(a, b) == Sign(a) * Sign(b) * MulAbs(Abs(a), Abs(b))

\* The last two of the six decimal digits of r / d, then the rounding.
DivLow(r, d) == ((100 * r) \div d) + (IF 2 * ((100 * r) % d) >= d THEN 1 ELSE 0)

\* The middle two digits of r / d, then the low ones.
DivMid(r, d) == ((100 * r) \div d) * 100 + DivLow((100 * r) % d, d)

\* n / d for n >= 0 and d > 0, by long division two digits at a time.
DivAbs(n, d) == (n \div d) * Scale + ((100 * (n % d)) \div d) * 10000
                  + DivMid((100 * (n % d)) % d, d)

\* f64 division by a nonzero number, rounded to nearest.
Div(a, b) == Sign(a) * Sign(b) * DivAbs(Abs(a), Abs(b))

\* a / n for a whole number n > 0, rounded to nearest.
DivInt(a, n) == Sign(a) * ((Abs(a) + (n \div 2)) \div n)

\* f64::recip
Recip(v) == Div(Scale, v)

\* e^n for n = -15 .. 7
ExpWhole ==
  <<0, 1, 2, 6, 17, 45, 123, 335, 912, 2479, 6738, 18316, 49787, 135335,
    367879, 1000000, 2718282, 7389056, 20085537, 54598150, 148413159,
    403428793, 1096633158>>

\* e^(k/8) for k = 0 .. 7
ExpEighths ==
  <<1000000, 1133148, 1284025, 1454991, 1648721, 1868246, 2117000, 2398875>>

\* e^r for 0 <= r < 1/8 by the series 1 + r + r^2/2! + ... + r^5/5!, r2 = r^2
ExpSeries(r, r2) ==
  Scale + r + DivInt(r2, 2) + DivInt(Mul(r2, r), 6) + DivInt(Mul(r2, r2), 24)
    + DivInt(Mul(Mul(r2, r2), r), 120)

\* e^(n + f) for a whole n and 0 <= f < 1: e^n * e^(k/8) * e^r
ExpParts(n, f) ==
  IF n < -15
    THEN 0
    ELSE Mul(ExpWhole[n + 16],
             Mul(ExpEighths[(f \div 125000) + 1],
                 ExpSeries(f % 125000, Mul(f % 125000, f % 125000))))

\* f64::exp
Exp(v) == ExpParts(v \div Scale, v % Scale)

Ln2 == 693147

\* 2 * atanh(z) for |z| <= 1/3 by the series 2 * (z + z^3/3 + ... + z^13/13),
\* z2 = z^2, z4 = z^4, z8 = z^8
AtanhSeries(z, z2, z4, z8) ==
  2 * (z + DivInt(Mul(z, z2), 3) + DivInt(Mul(z, z4), 5)
         + DivInt(Mul(Mul(z, z2), z4), 7) + DivInt(Mul(z, z8), 9)
         + DivInt(Mul(Mul(z, z2), z8), 11) + DivInt(Mul(Mul(z, z4), z8), 13))

\* the powers of z the series needs
AtanhPowers(z, z2) == AtanhSeries(z, z2, Mul(z2, z2), Mul(Mul(z2, z2), Mul(z2, z2)))

\* ln v for 1/2 <= v < 2: 2 * atanh((v - 1) / (v + 1))
LnNearOne(z) == AtanhPowers(z, Mul(z, z))

RECURSIVE LnPos(_)
\* ln of a positive number: the argument brought into [1/2, 2)
LnPos(v) ==
  IF v >= 2 * Scale THEN LnPos(DivInt(v, 2)) + Ln2
  ELSE IF 2 * v < Scale THEN LnPos(2 * v) - Ln2
  ELSE LnNearOne(Div(v - Scale, v + Scale))

\* f64::ln
Ln(v) == IF v < 0 THEN NaN ELSE IF v = 0 THEN NegInf ELSE LnPos(v)

----------------------------------------------------------------------------
(* Vectors are sequences of numbers, matrices are sequences of rows.       *)

\* The outcome of a call: a value, or a panic.
Ok(v) == [ok |-> TRUE, val |-> v]

Abort == [ok |-> FALSE, val |-> <<>>]

\* A vector with its entries computed.
Vec(f) == f \o <<>>

Rows(m) == Len(m)

Cols(m) == IF Len(m) = 0 THEN 0 ELSE Len(m[1])

RECURSIVE Dot(_, _, _)
\* a[1]*b[1] + ... + a[n]*b[n]
Dot(a, b, n) == IF n = 0 THEN 0 ELSE Dot(a, b, n - 1) + Mul(a[n], b[n])

\* Matrix * Vector; the library asserts the inner dimensions.
MatVec(m, v) ==
  IF Cols(m) # Len(v)
    THEN Abort
    ELSE Ok(Vec([i \in 1..Rows(m) |-> Dot(m[i], v, Len(v))]))

\* Matrix::transpose
Transpose(m) ==
  Vec([j \in 1..Cols(m) |-> Vec([i \in 1..Rows(m) |-> m[i][j]])])

\* Vector + Vector
VecAdd(a, b) ==
  IF Len(a) # Len(b) THEN Abort ELSE Ok(Vec([i \in 1..Len(a) |-> a[i] + b[i]]))

\* Vector - Vector
VecSub(a, b) ==
  IF Len(a) # Len(b) THEN Abort ELSE Ok(Vec([i \in 1..Len(a) |-> a[i] - b[i]]))

\* Vector * Vector, element by element
VecMul(a, b) ==
  IF Len(a) # Len(b)
    THEN Abort
    ELSE Ok(Vec([i \in 1..Len(a) |-> Mul(a[i], b[i])]))

\* Vector::mul_transpose: the outer product a * b^T
MulTranspose(a, b) ==
  Vec([i \in 1..Len(a) |-> Vec([j \in 1..Len(b) |-> Mul(a[i], b[j])])])

\* f64 * Matrix
ScalarMat(c, m) ==
  Vec([i \in 1..Rows(m) |-> Vec([j \in 1..Cols(m) |-> Mul(c, m[i][j])])])

\* Matrix -= Matrix; the library asserts equal shapes before it writes.
SubAssign(m, d) ==
  IF Rows(m) # Rows(d) \/ Cols(m) # Cols(d)
    THEN Abort
    ELSE Ok(Vec([i \in 1..Rows(m) |->
                   Vec([j \in 1..Cols(m) |-> m[i][j] - d[i][j]])]))

----------------------------------------------------------------------------
(* Activation                                                              *)

Activation == {"Sigmoid", "RectifiedLinearUnit", "Softplus"}

LossFunction == {"SquaredError", "CrossEntropy"}

\* ((-x).exp() + 1.0).recip()
Sigmoid(v) == Recip(Exp(-v) + Scale)

\* f64::max(v, 0.0)
Max0(v) == IF v > 0 THEN v ELSE 0

\* f64::signum: 1.0 for a positive number and for +0.0, -1.0 for a negative one
Signum(v) == IF v >= 0 THEN Scale ELSE -Scale

\* Activation::apply on one entry
ApplyEntry(act, v) ==
  CASE act = "Sigmoid" -> Sigmoid(v)
    [] act = "RectifiedLinearUnit" -> Max0(v)
    [] act = "Softplus" -> Ln(Scale + v)

\* sigmoid.clone() * (1.0 - sigmoid)
SigmoidSlope(sigmoid) == Mul(sigmoid, Scale - sigmoid)

\* Activation::derivative on one entry
DerivativeEntry(act, v) ==
  CASE act = "Sigmoid" -> SigmoidSlope(ApplyEntry(act, v))
    [] act = "RectifiedLinearUnit" -> Max0(Signum(v))
    [] act = "Softplus" -> Recip(Exp(-v) + Scale)

\* Activation::apply
apply(act, x) == Vec([i \in 1..Len(x) |-> ApplyEntry(act, x[i])])

\* Activation::derivative
derivative(act, x) == Vec([i \in 1..Len(x) |-> DerivativeEntry(act, x[i])])

----------------------------------------------------------------------------
(* LossFunction                                                            *)

\* (target - actual).powi(2) / 2.0
HalfSquares(d) ==
  IF d.ok
    THEN Ok(Vec([i \in 1..Len(d.val) |-> Div(Mul(d.val[i], d.val[i]), 2 * Scale)]))
    ELSE Abort

\* LossFunction::error
error(loss, target, actual) ==
  IF loss = "SquaredError" THEN HalfSquares(VecSub(target, actual)) ELSE Abort

\* Mutant: CrossEntropy given the derivative of SquaredError.
loss_derivativeImplemented(loss, target, actual) == VecSub(actual, target)

\* LossFunction::derivative
loss_derivative(loss, target, actual) ==
  IF loss = "SquaredError" THEN VecSub(actual, target) ELSE Abort

----------------------------------------------------------------------------
(* NeuronLayer                                                             *)

\* the net output with the bias added
AddBasis(prod, basis) == IF prod.ok THEN VecAdd(prod.val, basis) ELSE Abort

\* self.activation.apply(&net_output)
Activated(act, net_output) ==
  IF net_output.ok THEN Ok(apply(act, net_output.val)) ELSE Abort

\* Mutant: the bias left out of the net output.
propagateNoBias(self, input) ==
  Activated(self.activation,
            AddBasis(MatVec(self.weights, input),
                     [i \in 1..Len(self.basis) |-> 0]))

\* NeuronLayer::propagate
propagate(self, input) ==
  Activated(self.activation,
            AddBasis(MatVec(self.weights, input), self.basis))

\* the loss gradient times the activation's derivative
TargetDeltas(ld, slope) == IF ld.ok THEN VecMul(ld.val, slope) ELSE Abort

\* The deltas of a backward pass (the match on propagation.adjustment).
Deltas(self, propagation) ==
  IF propagation.adjustment.kind = "Target"
    THEN TargetDeltas(loss_derivative(self.loss, propagation.adjustment.vec,
                                      propagation.output),
                      derivative(self.activation, propagation.output))
    ELSE VecMul(propagation.adjustment.vec,
                derivative(self.activation, propagation.output))

\* The signal handed to the previous layer.
WeightedDeltas(weights, deltas) == MatVec(Transpose(weights), deltas)

\* Mutant: the correction added instead of subtracted.
UpdatedWeightsAscent(weights, learning_rate, corr) ==
  SubAssign(weights, ScalarMat(-learning_rate, corr))

\* Mutant: the difference computed and dropped, `-` written for `-=`.
UpdatedWeightsDiscarded(weights, learning_rate, corr) ==
  SubAssign(weights, ScalarMat(0, corr))

\* self.weights -= learning_rate * corr
UpdatedWeights(weights, learning_rate, corr) ==
  SubAssign(weights, ScalarMat(learning_rate, corr))

\* The end of a backward pass: the weights written and the signal returned,
\* unless one of the two has panicked.
Store(self, weighted_deltas, updated) ==
  IF weighted_deltas.ok /\ updated.ok
    THEN [layer |-> [self EXCEPT !.weights = updated.val], ret |-> weighted_deltas]
    ELSE [layer |-> self, ret |-> Abort]

\* the weights written entry by entry where a correction exists
Written(weights, learning_rate, corr) ==
  Vec([i \in 1..Rows(weights) |-> Vec([j \in 1..Cols(weights) |->
         IF i <= Rows(corr) /\ j <= Cols(corr)
           THEN weights[i][j] - Mul(learning_rate, corr[i][j])
           ELSE weights[i][j]])])

\* a panic that leaves the entries written so far
Spoiled(self, stored, written) ==
  IF stored.ret.ok THEN stored ELSE [layer |-> [self EXCEPT !.weights = written],
                                     ret |-> Abort]

\* Mutant: the weights written entry by entry before the shapes are compared,
\* so that a panic leaves the entries written so far.
FinishWritingFirst(self, propagation, deltas) ==
  IF deltas.ok
    THEN Spoiled(self,
                 Store(self, WeightedDeltas(self.weights, deltas.val),
                       UpdatedWeights(self.weights, propagation.learning_rate,
                                      MulTranspose(deltas.val, propagation.input))),
                 Written(self.weights, propagation.learning_rate,
                         MulTranspose(deltas.val, propagation.input)))
    ELSE [layer |-> self, ret |-> Abort]

\* a bias that follows its gradient, basis -= learning_rate * deltas
WithBias(stored, learning_rate, deltas) ==
  IF stored.ret.ok
    THEN [layer |-> [stored.layer EXCEPT
                       !.basis = Vec([i \in 1..Len(stored.layer.basis) |->
                                        stored.layer.basis[i]
                                          - Mul(learning_rate, deltas[i])])],
          ret |-> stored.ret]
    ELSE stored

\* Mutant: the bias updated along with the weights.
FinishWithBias(self, propagation, deltas) ==
  IF deltas.ok
    THEN WithBias(Store(self, WeightedDeltas(self.weights, deltas.val),
                        UpdatedWeights(self.weights, propagation.learning_rate,
                                       MulTranspose(deltas.val, propagation.input))),
                  propagation.learning_rate, deltas.val)
    ELSE [layer |-> self, ret |-> Abort]

\* the signal computed from the weights already updated
SignalAfter(self, updated, deltas) ==
  IF updated.ok
    THEN Store(self, WeightedDeltas(updated.val, deltas), updated)
    ELSE [layer |-> self, ret |-> Abort]

\* Mutant: the weights updated first, the returned signal computed from the
\* updated weights.
FinishUpdateFirst(self, propagation, deltas) ==
  IF deltas.ok
    THEN SignalAfter(self,
                     UpdatedWeights(self.weights, propagation.learning_rate,
                                    MulTranspose(deltas.val, propagation.input)),
                     deltas.val)
    ELSE [layer |-> self, ret |-> Abort]

\* A backward pass once its deltas are known: the signal from the weights as
\* they are, then the correction and the update.
Finish(self, propagation, deltas) ==
  IF deltas.ok
    THEN Store(self, WeightedDeltas(self.weights, deltas.val),
               UpdatedWeights(self.weights, propagation.learning_rate,
                              MulTranspose(deltas.val, propagation.input)))
    ELSE [layer |-> self, ret |-> Abort]

\* NeuronLayer::backpropagation: the layer after the call and what it returns.
backpropagation(self, propagation) ==
  Finish(self, propagation, Deltas(self, propagation))

----------------------------------------------------------------------------
(* The state: one layer, the call made last, and the number of calls.      *)

VARIABLES layer, call, calls

vars == <<layer, call, calls>>

\* the longest sequence of calls explored
MaxCalls == 2

\* the layers the calls are made on: weights and bias of matching shapes
Shapes ==
  { [weights |-> <<<<1000000, 2000000>>>>, basis |-> <<0>>],
    [weights |-> <<<<500000, -1000000>>, <<-500000, 250000>>>>,
     basis |-> <<250000, -500000>>] }

\* the vectors pushed to a layer; the last has no layer's input dimension
Inputs == { <<400000, -100000>>, <<1000000>> }

\* the outputs a caller puts in a Propagation
Outputs == { <<500000>>, <<0, 750000>> }

\* the vectors of an Adjustment
AdjustmentVectors == { <<300000>>, <<-200000, 1000000>> }

Adjustments ==
  { [kind |-> k, vec |-> v] : k \in {"Target", "Deltas"}, v \in AdjustmentVectors }

LearningRates == { 1000000, 500000 }

\* the arguments of the calls to Activation and LossFunction
PolicyVectors == { <<0, 500000>>, <<-500000, 200000>>, <<-1500000>> }

\* the (target, actual) pairs of the calls to LossFunction
LossPairs ==
  { <<<<300000>>, <<500000>>>>, <<<<0, 500000>>, <<-500000, 200000>>>>,
    <<<<300000>>, <<0, 500000>>>> }

Finite(v) == \A i \in 1..Len(v) : IsFinite(v[i])

Init ==
  /\ \E s \in Shapes, a \in Activation, l \in LossFunction :
       layer = [weights |-> s.weights, basis |-> s.basis,
                activation |-> a, loss |-> l]
  /\ call = [op |-> "new"]
  /\ calls = 0

\* layer.propagate(&input)
Propagate(input) ==
  /\ calls < MaxCalls
  /\ call' = [op |-> "propagate", input |-> input,
              ret |-> propagate(layer, input), before |-> layer]
  /\ calls' = calls + 1
  /\ UNCHANGED layer

\* The outputs a Propagation can carry: one the caller made up, or the one
\* the layer has just returned.
RecordOutputs ==
  Outputs \cup
    IF call.op = "propagate" /\ call.ret.ok /\ Finite(call.ret.val)
      THEN {call.ret.val}
      ELSE {}

\* the layer and the call record after a backpropagation that gave r
Returned(propagation, r) ==
  /\ layer' = r.layer
  /\ call' = [op |-> "backpropagation", propagation |-> propagation,
              ret |-> r.ret, before |-> layer]

\* layer.backpropagation(&propagation)
Backpropagation(propagation) ==
  /\ calls < MaxCalls
  /\ Returned(propagation, backpropagation(layer, propagation))
  /\ calls' = calls + 1

\* activation.apply(&x)
Apply(act, x) ==
  /\ calls < MaxCalls
  /\ call' = [op |-> "apply", activation |-> act, x |-> x,
              ret |-> Ok(apply(act, x))]
  /\ calls' = calls + 1
  /\ UNCHANGED layer

\* activation.derivative(&x)
Derivative(act, x) ==
  /\ calls < MaxCalls
  /\ call' = [op |-> "derivative", activation |-> act, x |-> x,
              ret |-> Ok(derivative(act, x))]
  /\ calls' = calls + 1
  /\ UNCHANGED layer

\* loss.error(&target, &actual)
Error(loss, target, actual) ==
  /\ calls < MaxCalls
  /\ call' = [op |-> "error", loss |-> loss, target |-> target,
              actual |-> actual, ret |-> error(loss, target, actual)]
  /\ calls' = calls + 1
  /\ UNCHANGED layer

\* loss.derivative(&target, &actual)
LossDerivative(loss, target, actual) ==
  /\ calls < MaxCalls
  /\ call' = [op |-> "loss_derivative", loss |-> loss, target |-> target,
              actual |-> actual, ret |-> loss_derivative(loss, target, actual)]
  /\ calls' = calls + 1
  /\ UNCHANGED layer

Next ==
  \/ \E input \in Inputs : Propagate(input)
  \/ \E input \in Inputs, output \in RecordOutputs, adjustment \in Adjustments,
        learning_rate \in LearningRates :
       Backpropagation([input |-> input, output |-> output,
                        adjustment |-> adjustment,
                        learning_rate |-> learning_rate])
  \/ \E act \in Activation, x \in PolicyVectors : Apply(act, x)
  \/ \E act \in Activation, x \in PolicyVectors : Derivative(act, x)
  \/ \E loss \in LossFunction, pair \in LossPairs :
       Error(loss, pair[1], pair[2])
  \/ \E loss \in LossFunction, pair \in LossPairs :
       LossDerivative(loss, pair[1], pair[2])

Spec == Init /\ [][Next]_vars

----------------------------------------------------------------------------
(* The training loop of tests::simple_backpropagation: the layer of the    *)
(* test, and a fixed input, target and learning rate.                      *)

\* the iterations of the loop
TrainSteps == 1000

\* the distance the test accepts, 1e-3
Epsilon == 1000

\* the fixture of the test
TestFixture ==
  [input |-> <<400000, -100000>>, target |-> <<300000>>, learning_rate |-> 1000000]

\* the fixtures trained with: the test's, one whose input is the zero vector,
\* one whose target no output of a Sigmoid reaches
Fixtures ==
  { TestFixture,
    [input |-> <<0, 0>>, target |-> <<300000>>, learning_rate |-> 1000000],
    [input |-> <<400000, -100000>>, target |-> <<2000000>>,
     learning_rate |-> 1000000] }

InitTrain ==
  /\ layer = [weights |-> <<<<1000000, 2000000>>>>, basis |-> <<0>>,
              activation |-> "Sigmoid", loss |-> "SquaredError"]
  /\ \E f \in Fixtures : call = [op |-> "train", fixture |-> f, ret |-> Abort]
  /\ calls = 0

\* the layer after layer.backpropagation(&propagation) gave r
Trained(r) ==
  /\ r.ret.ok
  /\ layer' = r.layer
  /\ call' = [call EXCEPT !.ret = r.ret]

\* the Propagation of the loop and the call made with it
Backward(output) ==
  /\ output.ok
  /\ Trained(backpropagation(layer,
               [input |-> call.fixture.input, output |-> output.val,
                adjustment |-> [kind |-> "Target", vec |-> call.fixture.target],
                learning_rate |-> call.fixture.learning_rate]))

\* one iteration: output = propagate(input), then backpropagation
TrainStep ==
  /\ calls < TrainSteps
  /\ Backward(propagate(layer, call.fixture.input))
  /\ calls' = calls + 1

NextTrain == TrainStep

SpecTrain == InitTrain /\ [][NextTrain]_vars

\* (output - expected).abs()[0] after the loop
FinalDistance ==
  Abs(propagate(layer, call.fixture.input).val[1] - call.fixture.target[1])

----------------------------------------------------------------------------
(* Properties                                                              *)

\* C1: for an input as long as the layer's input dimension, propagate returns
\* one entry per output dimension, and entry i is the activation applied to
\* (sum over j of weights[i][j] * x[j]) + bias[i].
C1_PropagateIsActivatedAffine ==
  (call.op = "propagate" /\ Len(call.input) = Cols(call.before.weights)) =>
    LET w == call.before.weights
        x == call.input
    IN  /\ call.ret.ok
        /\ Len(call.ret.val) = Rows(w)
        /\ \A i \in 1..Rows(w) :
             call.ret.val[i] =
               ApplyEntry(call.before.activation,
                          Dot(w[i], x, Len(x)) + call.before.basis[i])

\* C1 witness: the layer of tests::simple_propagation has answered
\* sigmoid(0.2), and a two-output layer with a nonzero bias has answered too.
C1_Witness ==
  /\ call.op = "propagate"
  /\ call.ret.ok
  /\ \/ /\ call.before.weights = <<<<1000000, 2000000>>>>
        /\ call.before.activation = "Sigmoid"
        /\ call.input = <<400000, -100000>>
        /\ Abs(call.ret.val[1] - 549834) <= 2
     \/ /\ Rows(call.before.weights) = 2
        /\ call.before.activation = "Sigmoid"
        /\ call.before.basis[2] # 0

\* the deltas of the formula: (output - t) (.) d for Target(t), a (.) d for
\* Deltas(a), d being activation.derivative(output)
GradientDeltas(p, d) ==
  Vec([i \in 1..Len(p.output) |->
         IF p.adjustment.kind = "Target"
           THEN Mul(p.output[i] - p.adjustment.vec[i], d[i])
           ELSE Mul(p.adjustment.vec[i], d[i])])

\* every weight has moved against its gradient
FollowsGradient(p, old, deltas) ==
  /\ Rows(layer.weights) = Rows(old)
  /\ \A i \in 1..Rows(old) :
       /\ Len(layer.weights[i]) = Len(old[i])
       /\ \A j \in 1..Len(old[i]) :
            layer.weights[i][j] =
              old[i][j] - Mul(p.learning_rate, Mul(deltas[i], p.input[j]))

\* C3: a backpropagation that returns has replaced every weights[i][j] by
\* weights[i][j] - learning_rate * deltas[i] * input[j], where deltas is
\* (output - t) (.) activation.derivative(output) for Target(t) and
\* d (.) activation.derivative(output) for Deltas(d).
C3_WeightsFollowGradient ==
  (call.op = "backpropagation" /\ call.ret.ok) =>
    FollowsGradient(call.propagation, call.before.weights,
                    GradientDeltas(call.propagation,
                                   derivative(call.before.activation,
                                              call.propagation.output)))

\* C3 witness: a backward pass towards a target, at a learning rate other
\* than 1, has moved the weights of a two-output layer.
C3_Witness ==
  /\ call.op = "backpropagation"
  /\ call.ret.ok
  /\ call.propagation.adjustment.kind = "Target"
  /\ call.propagation.learning_rate = 500000
  /\ Rows(layer.weights) = 2
  /\ layer.weights[1] # call.before.weights[1]
  /\ layer.weights[2] # call.before.weights[2]

C5_OnlyWeightsChange ==
  [][ /\ layer'.basis = layer.basis
      /\ layer'.activation = layer.activation
      /\ layer'.loss = layer.loss
      /\ (call'.op = "propagate" => layer' = layer)
      /\ (call'.op = "backpropagation" => call'.before = layer) ]_vars

\* C5 witness: after a sequence of two calls, the second a backpropagation
\* that has changed the weights of a layer with a nonzero bias.
C5_Witness ==
  /\ calls >= 2
  /\ call.op = "backpropagation"
  /\ call.ret.ok
  /\ layer.weights # call.before.weights
  /\ layer.basis = <<250000, -500000>>

\* C6: CrossEntropy yields no numeric result: error and derivative panic for
\* every target and actual, and so does backpropagation with a Target on a
\* layer whose loss is CrossEntropy.
C6_CrossEntropyAborts ==
  /\ (call.op \in {"error", "loss_derivative"} /\ call.loss = "CrossEntropy")
       => ~call.ret.ok
  /\ (/\ call.op = "backpropagation"
      /\ call.before.loss = "CrossEntropy"
      /\ call.propagation.adjustment.kind = "Target")
       => ~call.ret.ok

\* C6 witness: a backpropagation with a Target whose vectors all fit the
\* layer has panicked on a CrossEntropy layer.
C6_Witness ==
  /\ call.op = "backpropagation"
  /\ call.before.loss = "CrossEntropy"
  /\ call.propagation.adjustment.kind = "Target"
  /\ Len(call.propagation.input) = Cols(call.before.weights)
  /\ Len(call.propagation.output) = Rows(call.before.weights)
  /\ Len(call.propagation.adjustment.vec) = Rows(call.before.weights)
  /\ ~call.ret.ok

\* C7: every entry of propagate's result lies in the range of the
\* activation: in (0, 1) for Sigmoid, >= 0 for RectifiedLinearUnit, > 0 for
\* Softplus.
C7_OutputInActivationRange ==
  (call.op = "propagate" /\ call.ret.ok) =>
    \A i \in 1..Len(call.ret.val) :
      LET v == call.ret.val[i]
      IN  CASE call.before.activation = "Sigmoid" -> 0 < v /\ v < Scale
            [] call.before.activation = "RectifiedLinearUnit" -> v >= 0
            [] call.before.activation = "Softplus" -> v > 0

\* C8: Sigmoid.derivative of an activated output y is y * (1 - y), and this
\* is the factor backpropagation multiplies into deltas.
C8_SigmoidDerivativeOfOutput ==
  /\ (call.op = "derivative" /\ call.activation = "Sigmoid") =>
       \A i \in 1..Len(call.x) :
         (0 < call.x[i] /\ call.x[i] < Scale) =>
           Abs(call.ret.val[i] - Mul(call.x[i], Scale - call.x[i])) <= 10
  /\ (/\ call.op = "backpropagation"
      /\ call.ret.ok
      /\ call.before.activation = "Sigmoid"
      /\ call.propagation.adjustment.kind = "Deltas") =>
       LET p == call.propagation
       IN  \A i \in 1..Len(p.output) :
             (0 < p.output[i] /\ p.output[i] < Scale) =>
               \A j \in 1..Len(p.input) :
                 Abs(layer.weights[i][j]
                       - (call.before.weights[i][j]
                            - Mul(p.learning_rate,
                                  Mul(Mul(p.adjustment.vec[i],
                                          Mul(p.output[i], Scale - p.output[i])),
                                      p.input[j])))) <= 10

\* C9: RectifiedLinearUnit.derivative is 1 where x > 0 and 0 elsewhere, 0
\* included; a backpropagation leaves unchanged every row of weights whose
\* output entry is 0.
C9_ReluDerivativeZeroAtZero ==
  /\ (call.op = "derivative" /\ call.activation = "RectifiedLinearUnit") =>
       \A i \in 1..Len(call.x) :
         call.ret.val[i] = IF call.x[i] > 0 THEN Scale ELSE 0
  /\ (/\ call.op = "backpropagation"
      /\ call.ret.ok
      /\ call.before.activation = "RectifiedLinearUnit") =>
       \A i \in 1..Len(call.propagation.output) :
         call.propagation.output[i] = 0 =>
           layer.weights[i] = call.before.weights[i]

\* entry j of the signal is column j of the old weights times the deltas
SignalOf(old, deltas) ==
  /\ Len(call.ret.val) = Cols(old)
  /\ \A j \in 1..Cols(old) :
       call.ret.val[j] =
         Dot(Vec([i \in 1..Rows(old) |-> old[i][j]]), deltas, Rows(old))

\* C10: the signal a backpropagation returns has one entry per input
\* dimension, and entry j is the sum over i of weights[i][j] * deltas[i] with
\* the weights as they were before the call.
C10_SignalFromOldWeights ==
  (call.op = "backpropagation" /\ call.ret.ok) =>
    SignalOf(call.before.weights,
             GradientDeltas(call.propagation,
                            derivative(call.before.activation,
                                       call.propagation.output)))

\* C10 witness: a backward pass has changed the weights of a two-output
\* layer and returned a signal of the layer's input dimension that the
\* changed weights would not give.
C10_Witness ==
  /\ call.op = "backpropagation"
  /\ call.ret.ok
  /\ Rows(call.before.weights) = 2
  /\ Len(call.ret.val) = 2
  /\ layer.weights # call.before.weights
  /\ call.ret #
       WeightedDeltas(layer.weights, Deltas(call.before, call.propagation).val)

\* C2 as stated: with any fixed input, target and positive learning rate the
\* loop brings propagate(input) within 1e-3 of the target.
C2_ConvergesForEveryFixture ==
  (call.op = "train" /\ calls = TrainSteps) => FinalDistance < Epsilon

\* C2: from weights [[1.0, 2.0]], bias [0.0], input [0.4, -0.1], target [0.3]
\* and learning rate 1.0, after 1000 steps of propagate and backpropagation
\* |propagate(input)[0] - 0.3| < 1e-3.
C2_TestFixtureConverges ==
  (call.op = "train" /\ call.fixture = TestFixture /\ calls = TrainSteps) =>
    FinalDistance < Epsilon

\* C2 witness: the loop of the test has run its 1000 steps, the weights have
\* moved and the output is within 1e-3 of 0.3.
C2_Witness ==
  /\ call.op = "train"
  /\ call.fixture = TestFixture
  /\ calls = TrainSteps
  /\ layer.weights # <<<<1000000, 2000000>>>>
  /\ FinalDistance < Epsilon

====
